---------------------------- MODULE Spec2Model ----------------------------
(***************************************************************************)
(* Model of the conference deadline calendar, public/js/calendar.js:       *)
(* class ConferenceCalendar.  The state is the controller's fields          *)
(* (conferences, filteredConferences, months, currentMonthIndex,            *)
(* currentFilters), the parts of the page the controller reads and writes   *)
(* (the theme checkboxes, the conference list area, the console), and the   *)
(* environment the code reads (the clock and the browser's time zone).      *)
(* Further variables hold the fetch calls of loadData, the widths and        *)
(* timers of renderCalendar, the scroll positions and the closure            *)
(* variables of setupStickyHeader, and the pointer and the detail popup of   *)
(* the markers' mouse listeners.                                             *)
(*                                                                          *)
(* JavaScript strings are tuples of one-character strings, so that          *)
(* toLowerCase() and includes() are computed character by character.        *)
(* A JavaScript value that may be undefined is a record [t, s] with         *)
(* t = "undefined" or t = "string".                                         *)
(***************************************************************************)
EXTENDS Integers, Sequences, FiniteSets, TLC

VARIABLES
    phase,               \* position of init(): "constructed" (first fetch in flight),
                         \* "fallback" (second fetch in flight), "loaded", "ready", "error"
    now,                 \* what new Date() returns: [year, month (0-11), day]
    tzWest,              \* TRUE iff the browser's UTC offset is negative
    response,            \* the JSON body loadData received: [loaded, conferences, themes]
    conferences,         \* this.conferences
    checkboxValues,      \* #themeCheckboxes inputs, in page order: their values
    checkboxChecked,     \* #themeCheckboxes inputs, in page order: their checked flags
    currentFilters,      \* this.currentFilters: [themes, search]
    filteredConferences, \* this.filteredConferences
    months,              \* this.months
    currentMonthIndex,   \* this.currentMonthIndex: [t, n]
    conferencesList,     \* #conferencesList: [kind, rows]
    warnings,            \* console.warn calls: the set of entries warned about
    fetches,             \* the fetch calls of loadData, in order: [resource, outcome, body]
    listenersInstalled,  \* setupEventListeners and setupStickyHeader have run
    monthsHeader,        \* #monthsHeader: the labels of its month-header elements
    monthHeaderWidth,    \* offsetWidth the page layout gives a .month-header
    wrapperTop,          \* distance of .calendar-wrapper from the top of the document
    columnWidths,        \* style.width of the .month-column elements, in document order
    syncPending,         \* a setTimeout(syncHeaderAndBodyWidth, 0) is pending
    scrollPending,       \* a setTimeout(scrollLeft = ..., 100) is pending
    scrollLeft,          \* .calendar-wrapper's scrollLeft
    scrollY,             \* window.scrollY
    headerTop,           \* setupStickyHeader's headerTop: [t, n]
    isFixed,             \* setupStickyHeader's isFixed
    monthsWrapper,       \* setupStickyHeader's monthsWrapper: [t, translateX]
    monthsHeaderVisibility, \* .months-container's style.visibility
    columnHeaderPosition,   \* .conference-column-header's style.position
    pointer,             \* what the mouse pointer is over: [over, marker]
    popup,               \* the .deadline-detail-popup attached to the body: [t, marker]
    leaveTimers,         \* the markers whose mouseleave timer is pending
    installPending,      \* the timer that will add closePopup for the popup shown is pending
    closeListener,       \* closePopup for the popup shown listens to document clicks
    argument,            \* the argument of a helper called on its own
    returned             \* what that call returned: [done, value]

vars == << phase, now, tzWest, response, conferences, checkboxValues, checkboxChecked, currentFilters, filteredConferences, months, currentMonthIndex, conferencesList, warnings, fetches, listenersInstalled, monthsHeader, monthHeaderWidth, wrapperTop, columnWidths, syncPending, scrollPending, scrollLeft, scrollY, headerTop, isFixed, monthsWrapper, monthsHeaderVisibility, columnHeaderPosition, pointer, popup, leaveTimers, installPending, closeListener, argument, returned >>

\* the pointer and the detail popup
popupVars == << pointer, popup, leaveTimers, installPending, closeListener >>

\* what the page layout decides
envLayout == << monthHeaderWidth, wrapperTop >>

\* what renderCalendar leaves besides the list and the header
renderVars == << columnWidths, syncPending, scrollPending >>

\* scroll positions and the state of setupStickyHeader
stickyVars == << scrollLeft, scrollY, headerTop, isFixed, monthsWrapper, monthsHeaderVisibility, columnHeaderPosition >>

\* the variables of a helper called on its own
callVars == << argument, returned >>

-----------------------------------------------------------------------------
(* Bounds of the model. *)

\* longest conference list of a dataset
MaxConfs == 2
\* longest text typed into the search box
MaxSearchLen == 2
\* longest deadlines list of a YearInfo
MaxDeadlines == 2

-----------------------------------------------------------------------------
(* JavaScript values and strings. *)

Undefined == [t |-> "undefined", s |-> << >>]

Str(chars) == [t |-> "string", s |-> chars]

\* x || '' for a string-or-undefined x
OrEmpty(v) == IF v.t = "string" THEN v.s ELSE << >>

\* one character of String.prototype.toLowerCase
LowerChar(c) == CASE c = "A" -> "a" [] c = "B" -> "b" [] OTHER -> c

\* String.prototype.toLowerCase
ToLowerCase(s) == [i \in 1..Len(s) |-> LowerChar(s[i])]

\* String.prototype.includes: needle occurs in hay as a contiguous run
Includes(hay, needle) == \E i \in 0..(Len(hay) - Len(needle)) : SubSeq(hay, i + 1, i + Len(needle)) = needle

\* the set of elements of a sequence
Range(s) == {s[i] : i \in 1..Len(s)}

\* all sequences over S of length at most n
SeqsUpTo(S, n) == UNION {[1..k -> S] : k \in 0..n}

-----------------------------------------------------------------------------
(* Dates.  A date string of the dataset is [k, y, m, d]:                    *)
(*   k = "missing"  the field is absent (undefined)                          *)
(*   k = "empty"    the empty string                                         *)
(*   k = "bad"      a non-empty string Date cannot parse, such as "TBD"     *)
(*   k = "iso"      the date-only form "YYYY-MM-DD" (y, m in 1..12, d)       *)
(*   k = "local"    a date-time form without offset, "YYYY-MM-DDTHH:mm:ss"   *)
(* A Date object is [valid, y, m, d] in local time, m in 0..11 as getMonth. *)

MissingDate == [k |-> "missing", y |-> 0, m |-> 0, d |-> 0]

EmptyDate == [k |-> "empty", y |-> 0, m |-> 0, d |-> 0]

BadDate == [k |-> "bad", y |-> 0, m |-> 0, d |-> 0]

IsoDate(y, m, d) == [k |-> "iso", y |-> y, m |-> m, d |-> d]

LocalDate(y, m, d) == [k |-> "local", y |-> y, m |-> m, d |-> d]

InvalidDate == [valid |-> FALSE, y |-> 0, m |-> 0, d |-> 0]

\* JavaScript truthiness of a date string: undefined and '' are falsy
Truthy(ds) == ds.k \notin {"missing", "empty"}

IsLeap(y) == (y % 4 = 0 /\ y % 100 # 0) \/ y % 400 = 0

\* days of month m0 (0..11) of year y
DaysInMonth(y, m0) == IF m0 = 1 THEN (IF IsLeap(y) THEN 29 ELSE 28) ELSE IF m0 \in {3, 5, 8, 10} THEN 30 ELSE 31

\* the calendar day before (y, m0, d)
PrevDay(y, m0, d) == IF d > 1 THEN [valid |-> TRUE, y |-> y, m |-> m0, d |-> d - 1] ELSE IF m0 > 0 THEN [valid |-> TRUE, y |-> y, m |-> m0 - 1, d |-> DaysInMonth(y, m0 - 1)] ELSE [valid |-> TRUE, y |-> y - 1, m |-> 11, d |-> 31]

\* new Date(string) read back through the local getters getFullYear, getMonth,
\* getDate.  The date-only form is midnight UTC: west of Greenwich that instant
\* is the evening of the previous local day.  A form without offset that
\* carries a time is local time.  Anything else is an Invalid Date (NaN).
NewDateFromString(ds) ==
    CASE ds.k = "iso" -> IF tzWest THEN PrevDay(ds.y, ds.m - 1, ds.d) ELSE [valid |-> TRUE, y |-> ds.y, m |-> ds.m - 1, d |-> ds.d]
      [] ds.k = "local" -> [valid |-> TRUE, y |-> ds.y, m |-> ds.m - 1, d |-> ds.d]
      [] OTHER -> InvalidDate

\* new Date(year, monthIndex, 1): the month index overflows into the year
NewDate(y, monthIndex) == [valid |-> TRUE, y |-> y + (monthIndex \div 12), m |-> monthIndex % 12, d |-> 1]

\* the decimal digits of a number below 100, as characters
Digit(n) == <<"0", "1", "2", "3", "4", "5", "6", "7", "8", "9">>[n + 1]

NumChars(n) == IF n < 10 THEN <<Digit(n)>> ELSE <<Digit(n \div 10), Digit(n % 10)>>

\* String(n).padStart(2, '0')
PadStart2(n) == IF n < 10 THEN <<"0", Digit(n)>> ELSE NumChars(n)

-----------------------------------------------------------------------------
(* generateMonths *)

\* const fiscalYearStart = currentMonth >= 3 ? currentYear : currentYear - 1
FiscalYearStart_UseCalendarYear(n) == n.year

FiscalYearStart(n) == IF n.month >= 3 THEN n.year ELSE n.year - 1

\* totalMonths, from startDate = April 1 and endDate = March 31 two years on
TotalMonths(n) ==
    LET startDate == NewDate(FiscalYearStart(n), 3)
        endDate == NewDate(FiscalYearStart(n) + 2, 2)
    IN  (endDate.y - startDate.y) * 12 + (endDate.m - startDate.m) + 1

\* one element of this.months
MonthSlot(date) == [year |-> date.y, month |-> date.m + 1, label |-> NumChars(date.y \div 100) \o PadStart2(date.y % 100) \o <<"/">> \o PadStart2(date.m + 1)]

\* this.months after generateMonths
GeneratedMonths(n) ==
    LET startDate == NewDate(FiscalYearStart(n), 3)
    IN  [i \in 1..TotalMonths(n) |-> MonthSlot(NewDate(startDate.y, startDate.m + (i - 1)))]

\* this.currentMonthIndex after generateMonths
ComputedMonthIndex_DropYearTerm(n) == n.month - 3

ComputedMonthIndex(n) == (n.year - FiscalYearStart(n)) * 12 + (n.month - 3)

-----------------------------------------------------------------------------
(* applyFilters.  A conference record is                                    *)
(*   [name, short_name : string or undefined,                                *)
(*    themes : [isArray, list], theme : string or undefined,                 *)
(*    information : sequence of [label, info] in Object.keys order].         *)

\* const confThemes = Array.isArray(conf.themes) ? conf.themes : [conf.theme]
ConfThemes(conf) == IF conf.themes.isArray THEN [i \in 1..Len(conf.themes.list) |-> Str(conf.themes.list[i])] ELSE <<conf.theme>>

\* this.currentFilters.themes.has(theme): the set holds strings only
ThemesHas(themes, theme) == theme.t = "string" /\ theme.s \in themes

\* the search block of the filter callback: passes when search is '' (falsy)
SearchPasses_CaseSensitive(conf, search) ==
    \/ search = << >>
    \/ Includes(OrEmpty(conf.name), search)
    \/ Includes(OrEmpty(conf.short_name), search)
    \/ \E i \in 1..Len(ConfThemes(conf)) : Includes(OrEmpty(ConfThemes(conf)[i]), search)

SearchPasses(conf, search) ==
    \/ search = << >>
    \/ Includes(ToLowerCase(OrEmpty(conf.name)), search)
    \/ Includes(ToLowerCase(OrEmpty(conf.short_name)), search)
    \/ \E i \in 1..Len(ConfThemes(conf)) : Includes(ToLowerCase(OrEmpty(ConfThemes(conf)[i])), search)

\* the callback of this.conferences.filter(...)
FilterCallback_EmptyMeansAll(conf, filters) ==
    /\ Cardinality(filters.themes) = 0 \/ \E i \in 1..Len(ConfThemes(conf)) : ThemesHas(filters.themes, ConfThemes(conf)[i])
    /\ SearchPasses(conf, filters.search)

FilterCallback(conf, filters) ==
    IF Cardinality(filters.themes) = 0 THEN FALSE
    ELSE IF ~ \E i \in 1..Len(ConfThemes(conf)) : ThemesHas(filters.themes, ConfThemes(conf)[i]) THEN FALSE
    ELSE SearchPasses(conf, filters.search)

\* Array.prototype.filter: walks the array in order and pushes what passes
RECURSIVE ArrayFilter(_, _)
ArrayFilter(confs, filters) ==
    IF confs = << >> THEN << >>
    ELSE (IF FilterCallback(Head(confs), filters) THEN <<Head(confs)>> ELSE << >>) \o ArrayFilter(Tail(confs), filters)

-----------------------------------------------------------------------------
(* getDeadlinesInMonth and createDeadlineMarker.                            *)
(* A DeadlineRecord is [type, date, label, is_predicted]; a YearInfo is     *)
(* [deadlines, conference_dates : [present, start, end], is_predicted];     *)
(* an emitted entry is [type, date, endDate, label, is_predicted,           *)
(* conferenceName, conferenceYear].                                         *)

\* date.getFullYear() === month.year && date.getMonth() + 1 === month.month
\* (every comparison with NaN is false)
InMonth(date, month) == date.valid /\ date.y = month.year /\ date.m + 1 = month.month

\* new Date(deadline.date) inside getDeadlinesInMonth
DeadlineDate_InvalidIsNow(ds) == IF NewDateFromString(ds).valid THEN NewDateFromString(ds) ELSE [valid |-> TRUE, y |-> now.year, m |-> now.month, d |-> now.day]

DeadlineDate(ds) == NewDateFromString(ds)

\* deadlines.push({...deadline, conferenceName, conferenceYear})
DeadlineEntry(deadline, conference, confYear) == [type |-> deadline.type, date |-> deadline.date, endDate |-> MissingDate, label |-> deadline.label, is_predicted |-> deadline.is_predicted, conferenceName |-> conference.short_name, conferenceYear |-> confYear]

\* deadlines.push({type: 'conference', ...})
ConferenceEntry(yearInfo, conference, confYear) == [type |-> "conference", date |-> yearInfo.conference_dates.start, endDate |-> yearInfo.conference_dates.end, label |-> "Conference Date", is_predicted |-> yearInfo.is_predicted, conferenceName |-> conference.short_name, conferenceYear |-> confYear]

\* the body of the forEach over Object.keys(conference.information)
YearEntries(conference, confYear, yearInfo, month) ==
    LET hits == SelectSeq(yearInfo.deadlines, LAMBDA dl : Truthy(dl.date) /\ InMonth(DeadlineDate(dl.date), month))
        cd == yearInfo.conference_dates
    IN  [i \in 1..Len(hits) |-> DeadlineEntry(hits[i], conference, confYear)]
        \o (IF cd.present /\ Truthy(cd.start) /\ InMonth(NewDateFromString(cd.start), month)
            THEN <<ConferenceEntry(yearInfo, conference, confYear)>> ELSE << >>)

RECURSIVE EntriesFrom(_, _, _)
EntriesFrom(conference, k, month) ==
    IF k > Len(conference.information) THEN << >>
    ELSE YearEntries(conference, conference.information[k].label, conference.information[k].info, month) \o EntriesFrom(conference, k + 1, month)

\* getDeadlinesInMonth(conference, month); a record without information is
\* a record whose information is the empty sequence
GetDeadlinesInMonth(conference, month) == EntriesFrom(conference, 1, month)

\* `${date.getMonth() + 1}/${date.getDate()}`: NaN prints as "NaN"
FormatMonthDay(date) == IF date.valid THEN NumChars(date.m + 1) \o <<"/">> \o NumChars(date.d) ELSE <<"N", "a", "N", "/", "N", "a", "N">>

\* dateStr of createDeadlineMarker
MarkerText(deadline) ==
    IF deadline.type = "conference" /\ Truthy(deadline.endDate)
    THEN FormatMonthDay(NewDateFromString(deadline.date)) \o <<"-">> \o FormatMonthDay(NewDateFromString(deadline.endDate))
    ELSE FormatMonthDay(NewDateFromString(deadline.date))

\* if (!dateStr || dateStr === 'NaN/NaN') console.warn(...)
MarkerWarns(deadline) == MarkerText(deadline) = << >> \/ MarkerText(deadline) = <<"N", "a", "N", "/", "N", "a", "N">>

\* the marker element: its text and the entry its handlers close over
CreateDeadlineMarker(deadline) == [text |-> MarkerText(deadline), deadline |-> deadline]

\* the month columns appended by createConferenceRow, one per element of months
CreateConferenceRow(conference, ms) == [short_name |-> conference.short_name, columns |-> [i \in 1..Len(ms) |-> LET deadlinesInMonth == GetDeadlinesInMonth(conference, ms[i]) IN [j \in 1..Len(deadlinesInMonth) |-> CreateDeadlineMarker(deadlinesInMonth[j])]]]

\* the console.warn calls of createConferenceRow
RowWarnings(conference, ms) == {e \in UNION {Range(GetDeadlinesInMonth(conference, ms[i])) : i \in 1..Len(ms)} : MarkerWarns(e)}

\* groupConferencesByName: one group per record, in order, the fields kept
GroupConferencesByName(confs) == [i \in 1..Len(confs) |-> [name |-> confs[i].name, short_name |-> confs[i].short_name, theme |-> confs[i].theme, themes |-> confs[i].themes, information |-> confs[i].information]]

\* #conferencesList after renderConferenceRows
RenderConferenceRows(filtered, ms) ==
    IF Len(filtered) = 0 THEN [kind |-> "no-data", rows |-> << >>]
    ELSE [kind |-> "rows", rows |-> [i \in 1..Len(filtered) |-> CreateConferenceRow(GroupConferencesByName(filtered)[i], ms)]]

\* the console.warn calls of one renderConferenceRows
RenderWarnings(filtered, ms) == UNION {RowWarnings(GroupConferencesByName(filtered)[i], ms) : i \in 1..Len(filtered)}

-----------------------------------------------------------------------------
(* The controller: constructor, init, loadData, the control listeners. *)

\* the resources of loadData
PrimaryResource == "data/conferences_with_cfp.json"

FallbackResource == "data/conferences_base.json"

\* a fetch call: the resource asked for, how the request ended ("pending",
\* "ok", "not-ok" for a status outside 200-299, "rejected" for a request that
\* failed) and what response.json() found in the body ("unread", "expected",
\* "not-json", "no-fields", "conferences-not-array", "themes-not-array")
Request(resource) == [resource |-> resource, outcome |-> "pending", body |-> "unread"]

\* the fetch in flight ends with `outcome`, its body read as `body`
Answered(f, outcome, body) == [f EXCEPT ![Len(f)] = [resource |-> f[Len(f)].resource, outcome |-> outcome, body |-> body]]

\* the response loadData read its data from
LastFetch == fetches[Len(fetches)]

\* this.conferences holds an array (else the model keeps << >> in its place)
ConferencesIsArray == LastFetch.body # "conferences-not-array"

\* showError: the message replaces the content of #conferencesList
ErrorMessage == [kind |-> "error", rows |-> << >>]

\* const monthWidth = 150; // min-width of month-column
MonthWidth == 150

\* style.width of an element: not set, or a number of pixels
StyleUnset == [set |-> FALSE, px |-> 0]

Px(n) == [set |-> TRUE, px |-> n]

\* the pointer is over no marker and no popup
Elsewhere == [over |-> "elsewhere", marker |-> << >>]

\* document.querySelector('.deadline-detail-popup') finds nothing
NoPopup == [t |-> "none", marker |-> << >>]

\* let headerTop = null
Null == [t |-> "null", n |-> 0]

\* let monthsWrapper = null
NoElement == [t |-> "null", translateX |-> 0]

\* the state the constructor leaves, in an environment (clock, time zone,
\* width of a month header, position of the calendar in the document)
InitOn(clocks, zones, widths, tops) ==
    /\ phase = "constructed"
    /\ now \in clocks
    /\ tzWest \in zones
    /\ response = [loaded |-> FALSE, conferences |-> << >>, themes |-> << >>]
    /\ conferences = << >>
    /\ checkboxValues = << >>
    /\ checkboxChecked = << >>
    /\ currentFilters = [themes |-> {}, search |-> << >>]
    /\ filteredConferences = << >>
    /\ months = << >>
    /\ currentMonthIndex = [t |-> "undefined", n |-> 0]
    /\ conferencesList = [kind |-> "empty", rows |-> << >>]
    /\ warnings = {}
    /\ fetches = <<Request(PrimaryResource)>>
    /\ listenersInstalled = FALSE
    /\ monthsHeader = << >>
    /\ monthHeaderWidth \in widths
    /\ wrapperTop \in tops
    /\ columnWidths = << >>
    /\ syncPending = FALSE
    /\ scrollPending = FALSE
    /\ scrollLeft = 0
    /\ scrollY = 0
    /\ headerTop = Null
    /\ isFixed = FALSE
    /\ monthsWrapper = NoElement
    /\ monthsHeaderVisibility = ""
    /\ columnHeaderPosition = ""
    /\ pointer = Elsewhere
    /\ popup = NoPopup
    /\ leaveTimers = {}
    /\ installPending = FALSE
    /\ closeListener = FALSE

\* the constructor's state on a page whose month headers are as wide as the
\* month columns and whose calendar starts below the top of the document
InitIn(clocks, zones) == InitOn(clocks, zones, {MonthWidth}, {2 * MonthWidth})

\* no helper has been called on its own
NotReturned == [done |-> FALSE, value |-> << >>]

NoCall == argument = << >> /\ returned = NotReturned

\* populateThemeFilter: this.currentFilters.themes = new Set(themes)
InitialThemes_NoneSelected(themes) == {}

InitialThemes(themes) == Range(themes)

\* loadData resolving with the body `data`: conferences, populateThemeFilter
LoadData(data) ==
    /\ phase \in {"constructed", "fallback"}
    /\ phase' = "loaded"
    /\ fetches' = Answered(fetches, "ok", "expected")
    /\ response' = [loaded |-> TRUE, conferences |-> data.conferences, themes |-> data.themes]
    /\ conferences' = data.conferences
    /\ currentFilters' = [currentFilters EXCEPT !.themes = InitialThemes(data.themes)]
    /\ checkboxValues' = data.themes
    /\ checkboxChecked' = [i \in 1..Len(data.themes) |-> TRUE]
    /\ UNCHANGED << now, tzWest, filteredConferences, months, currentMonthIndex, conferencesList, warnings, listenersInstalled, monthsHeader >>
    /\ UNCHANGED << callVars, envLayout, stickyVars, renderVars, popupVars >>

\* renderMonthHeaders: one month-header per element of this.months
RenderMonthHeaders(ms) == [i \in 1..Len(ms) |-> ms[i].label]

\* applyFilters under the filters just set: filter, then renderCalendar
\* (renderMonthHeaders, renderConferenceRows with fresh month columns, the
\* timer of syncHeaderAndBodyWidth, and scrollToCurrentMonth, whose test of
\* this.currentMonthIndex passes once generateMonths has run; timers of one
\* callback that are pending together are kept as one);
\* this.conferences.filter throws when this.conferences is not an array
ApplyFilters(filters, ms) ==
    IF ConferencesIsArray
    THEN /\ filteredConferences' = ArrayFilter(conferences, filters)
         /\ conferencesList' = RenderConferenceRows(ArrayFilter(conferences, filters), ms)
         /\ warnings' = warnings \cup RenderWarnings(ArrayFilter(conferences, filters), ms)
         /\ monthsHeader' = RenderMonthHeaders(ms)
         /\ columnWidths' = [k \in 1..(Len(ArrayFilter(conferences, filters)) * Len(ms)) |-> StyleUnset]
         /\ syncPending' = TRUE
         /\ scrollPending' = TRUE
    ELSE UNCHANGED << filteredConferences, conferencesList, warnings, monthsHeader, renderVars >>

\* init after loadData: setupEventListeners, setupStickyHeader,
\* generateMonths, applyFilters; catch (error) { showError } when it throws
InitRest ==
    /\ phase = "loaded"
    /\ listenersInstalled' = TRUE
    /\ months' = GeneratedMonths(now)
    /\ currentMonthIndex' = [t |-> "number", n |-> ComputedMonthIndex(now)]
    /\ IF ConferencesIsArray
       THEN /\ phase' = "ready"
            /\ ApplyFilters(currentFilters, GeneratedMonths(now))
       ELSE /\ phase' = "error"
            /\ conferencesList' = ErrorMessage
            /\ UNCHANGED << filteredConferences, warnings, monthsHeader, renderVars >>
    /\ UNCHANGED << now, tzWest, response, conferences, checkboxValues, checkboxChecked, currentFilters, fetches >>
    /\ UNCHANGED << callVars, envLayout, stickyVars, popupVars >>

\* click on #selectAllThemes
SelectAllThemes ==
    /\ listenersInstalled
    /\ checkboxChecked' = [i \in 1..Len(checkboxValues) |-> TRUE]
    /\ currentFilters' = [currentFilters EXCEPT !.themes = Range(checkboxValues)]
    /\ ApplyFilters(currentFilters', months)
    /\ UNCHANGED << phase, now, tzWest, response, conferences, checkboxValues, months, currentMonthIndex, fetches, listenersInstalled >>
    /\ UNCHANGED << callVars, envLayout, stickyVars, popupVars >>

\* click on #deselectAllThemes
DeselectAllThemes_NoApply ==
    /\ listenersInstalled
    /\ checkboxChecked' = [i \in 1..Len(checkboxValues) |-> FALSE]
    /\ currentFilters' = [currentFilters EXCEPT !.themes = {}]
    /\ UNCHANGED << phase, now, tzWest, response, conferences, checkboxValues, months, currentMonthIndex, filteredConferences, conferencesList, warnings, fetches, listenersInstalled, monthsHeader >>
    /\ UNCHANGED << callVars, envLayout, stickyVars, renderVars, popupVars >>

DeselectAllThemes ==
    /\ listenersInstalled
    /\ checkboxChecked' = [i \in 1..Len(checkboxValues) |-> FALSE]
    /\ currentFilters' = [currentFilters EXCEPT !.themes = {}]
    /\ ApplyFilters(currentFilters', months)
    /\ UNCHANGED << phase, now, tzWest, response, conferences, checkboxValues, months, currentMonthIndex, fetches, listenersInstalled >>
    /\ UNCHANGED << callVars, envLayout, stickyVars, popupVars >>

\* the user toggles checkbox i; its change event bubbles to #themeCheckboxes
ThemeCheckboxChange(i) ==
    /\ listenersInstalled
    /\ i \in 1..Len(checkboxValues)
    /\ checkboxChecked' = [checkboxChecked EXCEPT ![i] = ~ checkboxChecked[i]]
    /\ currentFilters' = [currentFilters EXCEPT !.themes = {checkboxValues[j] : j \in {k \in 1..Len(checkboxValues) : checkboxChecked'[k]}}]
    /\ ApplyFilters(currentFilters', months)
    /\ UNCHANGED << phase, now, tzWest, response, conferences, checkboxValues, months, currentMonthIndex, fetches, listenersInstalled >>
    /\ UNCHANGED << callVars, envLayout, stickyVars, popupVars >>

\* input event on #searchInput with the box holding `value`
SearchInput(value) ==
    /\ listenersInstalled
    /\ currentFilters' = [currentFilters EXCEPT !.search = ToLowerCase(value)]
    /\ ApplyFilters(currentFilters', months)
    /\ UNCHANGED << phase, now, tzWest, response, conferences, checkboxValues, checkboxChecked, months, currentMonthIndex, fetches, listenersInstalled >>
    /\ UNCHANGED << callVars, envLayout, stickyVars, popupVars >>

-----------------------------------------------------------------------------
(* The inputs the specifications draw from. *)

ThemeA == <<"A", "a">>

ThemeB == <<"B">>

NameAb == <<"A", "b">>

ShortBa == <<"b", "A">>

NoThemes == [isArray |-> FALSE, list |-> << >>]

ThemeList(list) == [isArray |-> TRUE, list |-> list]

Deadline(type, date, label, predicted) == [type |-> type, date |-> date, label |-> label, is_predicted |-> predicted]

NoConferenceDates == [present |-> FALSE, start |-> MissingDate, end |-> MissingDate]

ConferenceDates(start, end) == [present |-> TRUE, start |-> start, end |-> end]

YearInfo(deadlines, dates, predicted) == [deadlines |-> deadlines, conference_dates |-> dates, is_predicted |-> predicted]

\* a year of a conference with one submission deadline and its dates
SampleInformation == << [label |-> "2026", info |-> YearInfo(<<Deadline("submission", IsoDate(2026, 3, 10), "Submission", FALSE)>>, ConferenceDates(IsoDate(2026, 6, 1), IsoDate(2026, 6, 5)), FALSE)] >>

\* conference records that differ in what the filter reads
FilterRecords ==
    { [name |-> Str(NameAb), short_name |-> Str(ShortBa), themes |-> ThemeList(<<ThemeA>>), theme |-> Undefined, information |-> SampleInformation],
      [name |-> Str(NameAb), short_name |-> Undefined, themes |-> ThemeList(<<ThemeA, ThemeB>>), theme |-> Undefined, information |-> << >>],
      [name |-> Undefined, short_name |-> Str(ShortBa), themes |-> NoThemes, theme |-> Str(ThemeB), information |-> << >>],
      [name |-> Undefined, short_name |-> Undefined, themes |-> NoThemes, theme |-> Undefined, information |-> << >>],
      [name |-> Str(NameAb), short_name |-> Str(ShortBa), themes |-> ThemeList(<< >>), theme |-> Undefined, information |-> << >>] }

\* theme vocabularies: none, one, two, and one listed twice
Vocabularies == { << >>, <<ThemeA>>, <<ThemeA, ThemeB>>, <<ThemeB, ThemeB>> }

FilterDatasets == [conferences : SeqsUpTo(FilterRecords, MaxConfs), themes : Vocabularies]

\* what the user can have typed into the search box
SearchValues == SeqsUpTo({"a", "B"}, MaxSearchLen)

\* deadline records that differ in what the bucketizer reads
DeadlineChoices ==
    { Deadline("submission", IsoDate(2026, 3, 10), "Submission", FALSE),
      Deadline("submission", IsoDate(2026, 3, 1), "Abstract", TRUE),
      Deadline("notification", IsoDate(2025, 4, 1), "Notification", FALSE),
      Deadline("camera-ready", LocalDate(2026, 3, 1), "Camera Ready", FALSE),
      Deadline("submission", BadDate, "Submission", FALSE),
      Deadline("submission", EmptyDate, "Submission", FALSE),
      Deadline("submission", MissingDate, "Submission", FALSE) }

ConferenceDatesChoices == {NoConferenceDates} \cup {ConferenceDates(st, en) : st \in {IsoDate(2026, 6, 1), BadDate, MissingDate}, en \in {IsoDate(2026, 6, 5), IsoDate(2026, 7, 2), BadDate, MissingDate}}

\* every shape of deadlines list and conference dates, not predicted, and one
\* predicted year with dates
YearInfoChoices == {YearInfo(dl, cd, FALSE) : dl \in SeqsUpTo(DeadlineChoices, MaxDeadlines), cd \in ConferenceDatesChoices} \cup {YearInfo(dl, ConferenceDates(IsoDate(2026, 6, 1), IsoDate(2026, 7, 2)), TRUE) : dl \in SeqsUpTo(DeadlineChoices, MaxDeadlines)}

\* the following year of the same conference: a deadline in a month the year
\* before it may use too, and dates after the window of fiscal year 2025
NextYearInfo == YearInfo(<<Deadline("submission", IsoDate(2026, 3, 10), "Submission", TRUE)>>, ConferenceDates(IsoDate(2027, 6, 1), IsoDate(2027, 6, 5)), TRUE)

\* another conference of the same dataset
OtherConference == [name |-> Str(NameAb), short_name |-> Str(NameAb), themes |-> ThemeList(<<ThemeA>>), theme |-> Undefined, information |-> << [label |-> "2026", info |-> YearInfo(<<Deadline("submission", LocalDate(2026, 3, 15), "Submission", FALSE)>>, ConferenceDates(LocalDate(2026, 6, 29), LocalDate(2026, 7, 3)), FALSE)] >>]

CalendarConferences == {[name |-> Str(ShortBa), short_name |-> Str(ShortBa), themes |-> ThemeList(<<ThemeA>>), theme |-> Undefined, information |-> << [label |-> "2026", info |-> yi], [label |-> "2027", info |-> NextYearInfo] >>] : yi \in YearInfoChoices}

CalendarDatasets == [conferences : {<<c, OtherConference>> : c \in CalendarConferences}, themes : {<<ThemeA>>}]

MonthsDatasets == [conferences : {<< >>, <<OtherConference>>}, themes : {<<ThemeA>>}]

Clock(y, m0, d) == [year |-> y, month |-> m0, day |-> d]

\* 15 November 2025
Nov2025 == Clock(2025, 10, 15)

\* clocks of the fiscal years 2023 to 2027
AllClocks == {Clock(y, m0, d) : y \in 2024..2027, m0 \in 0..11, d \in {1, 15, 28}}

-----------------------------------------------------------------------------
(* Specifications. *)

Init == InitIn({Nov2025}, BOOLEAN) /\ NoCall

Next ==
    \/ \E data \in FilterDatasets : LoadData(data)
    \/ InitRest
    \/ SelectAllThemes
    \/ DeselectAllThemes
    \/ \E i \in 1..Len(checkboxValues) : ThemeCheckboxChange(i)
    \/ \E value \in SearchValues : SearchInput(value)

\* the page under every dataset and every sequence of control events; the
\* timers renderCalendar starts, which assign none of the variables the
\* filter reads or writes, run in SpecLayout
Spec == Init /\ [][Next]_vars

InitMonths == InitIn(AllClocks, BOOLEAN) /\ NoCall

NextMonths ==
    \/ \E data \in MonthsDatasets : LoadData(data)
    \/ InitRest

\* initialization under every clock
SpecMonths == InitMonths /\ [][NextMonths]_vars

InitCalendar == InitIn({Nov2025, Clock(2026, 4, 1)}, BOOLEAN) /\ NoCall

NextCalendar ==
    \/ \E data \in CalendarDatasets : LoadData(data)
    \/ InitRest

\* initialization under every shape of deadline and conference-date record
SpecCalendar == InitCalendar /\ [][NextCalendar]_vars

-----------------------------------------------------------------------------
(* The filter predicate as the specification words it. *)

\* the record's effective theme set: its themes list, or the singleton of its
\* legacy theme field (no string at all when that field is absent)
EffectiveThemeSet(conf) == IF conf.themes.isArray THEN Range(conf.themes.list) ELSE IF conf.theme.t = "string" THEN {conf.theme.s} ELSE {}

\* needle occurs in hay when the case of the letters is ignored
CaseInsensitiveSubstring(needle, hay) == \E off \in 0..(Len(hay) - Len(needle)) : \A k \in 1..Len(needle) : LowerChar(needle[k]) = LowerChar(hay[off + k])

\* the three conditions of inclusion
SpecIncludes(conf, filters) ==
    /\ filters.themes # {}
    /\ EffectiveThemeSet(conf) \cap filters.themes # {}
    /\ \/ filters.search = << >>
       \/ CaseInsensitiveSubstring(filters.search, OrEmpty(conf.name))
       \/ CaseInsensitiveSubstring(filters.search, OrEmpty(conf.short_name))
       \/ \E th \in EffectiveThemeSet(conf) : CaseInsensitiveSubstring(filters.search, th)

\* the themes of the checked checkboxes
CheckedThemes == {checkboxValues[i] : i \in {k \in 1..Len(checkboxValues) : checkboxChecked[k]}}

-----------------------------------------------------------------------------
(* Claims about the filter, checked under Spec. *)

AllThemesSelected == currentFilters.themes = Range(response.themes) /\ Len(checkboxChecked) = Len(response.themes) /\ (\A i \in 1..Len(checkboxChecked) : checkboxChecked[i] /\ checkboxValues[i] = response.themes[i]) /\ currentFilters.search = << >>

\* C3: the step that loads the data and the step that finishes initialization
\* both end with every theme of the loaded vocabulary selected, every checkbox
\* checked and the search string empty; no user event comes before them.
C3_InitialFilterState == [][(phase # "ready" /\ phase' # phase) => AllThemesSelected']_vars

\* C3 witness: initialization has finished on a vocabulary of two themes, all
\* selected.
C3_Witness == phase = "ready" /\ Cardinality(Range(response.themes)) = 2 /\ AllThemesSelected /\ Len(filteredConferences) > 0

\* C4: after initialization and after every control event the selected themes
\* are those of the checked checkboxes, the filtered list is the subsequence
\* of the loaded list that satisfies the predicate under the current filter
\* state, in the loaded order, and the list area shows that filtered list.
C4_ViewFollowsFilterState ==
    phase = "ready" =>
        /\ currentFilters.themes = CheckedThemes
        /\ filteredConferences = SelectSeq(conferences, LAMBDA conf : SpecIncludes(conf, currentFilters))
        /\ Len(conferencesList.rows) = Len(filteredConferences)
        /\ \A i \in 1..Len(filteredConferences) : conferencesList.rows[i].short_name = filteredConferences[i].short_name
        /\ conferencesList.kind = (IF filteredConferences = << >> THEN "no-data" ELSE "rows")

\* C4 witness: one checkbox is unchecked, a search is set, and the filter kept
\* the second of two loaded records but not the first.
C4_Witness == phase = "ready" /\ Len(conferences) = 2 /\ (\E i \in 1..Len(checkboxChecked) : ~ checkboxChecked[i]) /\ currentFilters.search # << >> /\ filteredConferences = <<conferences[2]>> /\ conferences[1] # conferences[2]

-----------------------------------------------------------------------------
(* Claims about generateMonths, checked under SpecMonths. *)

\* the fiscal year start as the specification words it: the previous calendar
\* year in January, February and March, the current one otherwise
SpecFiscalYear == IF now.month \in {0, 1, 2} THEN now.year - 1 ELSE now.year

\* slot b is the calendar month right after slot a
NextCalendarMonth(a, b) == IF a.month = 12 THEN b.year = a.year + 1 /\ b.month = 1 ELSE b.year = a.year /\ b.month = a.month + 1

\* C5: generateMonths leaves exactly 24 month slots, each the calendar month
\* after the one before it, from April of the fiscal year start to March two
\* years later.
C5_TwentyFourConsecutiveMonths ==
    phase = "ready" =>
        /\ Len(months) = 24
        /\ months[1].year = SpecFiscalYear /\ months[1].month = 4
        /\ months[Len(months)].year = SpecFiscalYear + 2 /\ months[Len(months)].month = 3
        /\ \A i \in 1..(Len(months) - 1) : NextCalendarMonth(months[i], months[i + 1])

\* C5 witness: the months were generated in a February, whose fiscal year
\* started the calendar year before.
C5_Witness == phase = "ready" /\ now.month = 1 /\ Len(months) = 24 /\ months[1].year = now.year - 1 /\ months[24].year = now.year + 1

\* C6: the current-month index is the zero-based position of the slot of the
\* current year and month, it lies in 0..11, and on 15 November 2025 it is 7.
C6_CurrentMonthIndex ==
    phase = "ready" =>
        /\ currentMonthIndex.t = "number"
        /\ currentMonthIndex.n \in 0..11
        /\ months[currentMonthIndex.n + 1].year = now.year
        /\ months[currentMonthIndex.n + 1].month = now.month + 1
        /\ (now = Nov2025 => currentMonthIndex.n = 7)

\* C6 witness: on 15 November 2025 the index is 7 and slot 8 is 2025/11.
C6_Witness == phase = "ready" /\ now = Nov2025 /\ currentMonthIndex.n = 7 /\ months[8].label = <<"2", "0", "2", "5", "/", "1", "1">>

\* the index in a month before April, too
C6_WitnessJanuary == phase = "ready" /\ now.month = 0 /\ currentMonthIndex.n = 9

-----------------------------------------------------------------------------
(* Claims about the bucketizer, checked under SpecCalendar. *)

\* the year and month written in a date string are those of the slot
WrittenIn(ds, slot) == ds.k \in {"iso", "local"} /\ ds.y = slot.year /\ ds.m = slot.month

\* the date string cannot be parsed, or there is none
Unparseable(ds) == ds.k \in {"missing", "empty", "bad"}

\* the entries behind the markers of row r, month column i
ColumnEntries(r, i) == [j \in 1..Len(conferencesList.rows[r].columns[i]) |-> conferencesList.rows[r].columns[i][j].deadline]

\* those that come from the deadlines list of the year labelled `label`
ColumnDeadlines(r, i, label) == SelectSeq(ColumnEntries(r, i), LAMBDA e : e.conferenceYear = label /\ e.label # "Conference Date")

\* those that are the synthetic conference entry of the year labelled `label`
ColumnConferenceDates(r, i, label) == SelectSeq(ColumnEntries(r, i), LAMBDA e : e.conferenceYear = label /\ e.label = "Conference Date")

\* the deadline record an entry carries
RecordOf(e) == [type |-> e.type, date |-> e.date, label |-> e.label, is_predicted |-> e.is_predicted]

\* every filtered conference has its row, in order
RowsRendered == phase = "ready" /\ conferencesList.kind = "rows" /\ Len(conferencesList.rows) = Len(filteredConferences) /\ \A r \in 1..Len(filteredConferences) : Len(conferencesList.rows[r].columns) = Len(months)

\* in every slot, the deadline entries of every year are exactly the records
\* of that year whose written year and month are the slot's, one entry each
DeadlinesInWrittenMonth ==
    \A r \in 1..Len(filteredConferences) : \A k \in 1..Len(filteredConferences[r].information) : \A i \in 1..Len(months) :
        LET year == filteredConferences[r].information[k]
            found == ColumnDeadlines(r, i, year.label)
        IN  /\ [j \in 1..Len(found) |-> RecordOf(found[j])] = SelectSeq(year.info.deadlines, LAMBDA dl : WrittenIn(dl.date, months[i]))
            /\ \A j \in 1..Len(found) : found[j].conferenceName = filteredConferences[r].short_name

\* C7: over the 24 slots every deadline record is emitted as its own entry in
\* exactly the slot of the year and month of its date, and in no slot when
\* that month is outside the window; records sharing a slot stay distinct.
C7_DeadlineInItsMonthOnly == RowsRendered => DeadlinesInWrittenMonth

\* C7 holds in a browser at or east of Greenwich.
C7_EastOfGreenwich == (RowsRendered /\ ~ tzWest) => DeadlinesInWrittenMonth

\* in every slot, the synthetic entries of every year are the one entry for
\* conference dates whose start is written in the slot's month, or none
ConferenceDatesInWrittenMonth ==
    \A r \in 1..Len(filteredConferences) : \A k \in 1..Len(filteredConferences[r].information) : \A i \in 1..Len(months) :
        LET year == filteredConferences[r].information[k]
            cd == year.info.conference_dates
        IN  ColumnConferenceDates(r, i, year.label) =
                IF cd.present /\ WrittenIn(cd.start, months[i])
                THEN << [type |-> "conference", date |-> cd.start, endDate |-> cd.end, label |-> "Conference Date", is_predicted |-> year.info.is_predicted, conferenceName |-> filteredConferences[r].short_name, conferenceYear |-> year.label] >>
                ELSE << >>

\* C8: a YearInfo whose conference_dates.start lies in the window yields
\* exactly one synthetic entry of type "conference", in the slot of the year
\* and month of the start date, with the start, the end, the fixed label, the
\* is_predicted flag, the short name and the year label.
C8_ConferenceDatesInStartMonth == RowsRendered => ConferenceDatesInWrittenMonth

\* C8 holds in a browser at or east of Greenwich.
C8_EastOfGreenwich == (RowsRendered /\ ~ tzWest) => ConferenceDatesInWrittenMonth

\* conference record `conf` without its deadline records of unparseable date
WithoutBadDeadlines(conf) == [conf EXCEPT !.information = [k \in 1..Len(conf.information) |-> [label |-> conf.information[k].label, info |-> [conf.information[k].info EXCEPT !.deadlines = SelectSeq(conf.information[k].info.deadlines, LAMBDA dl : ~ Unparseable(dl.date))]]]]

\* C9: a deadline record whose date is missing, empty or unparseable is in no
\* slot, and rendering completes with every row exactly as it is for the same
\* dataset without those records.
C9_BadDeadlineDatesIgnored ==
    phase = "ready" =>
        /\ RowsRendered
        /\ \A r \in 1..Len(filteredConferences) : \A i \in 1..Len(months) : \A j \in 1..Len(ColumnEntries(r, i)) : ColumnEntries(r, i)[j].label # "Conference Date" => ~ Unparseable(ColumnEntries(r, i)[j].date)
        /\ conferencesList = RenderConferenceRows([r \in 1..Len(filteredConferences) |-> WithoutBadDeadlines(filteredConferences[r])], months)

\* C9 witness: a year lists a record with an unparseable date before one
\* dated 2026-03-10, and the rows are rendered with a marker for the second.
C9_Witness ==
    /\ RowsRendered
    /\ ~ tzWest
    /\ filteredConferences[1].information[1].info.deadlines = <<Deadline("submission", BadDate, "Submission", FALSE), Deadline("submission", IsoDate(2026, 3, 10), "Submission", FALSE)>>
    /\ \E i \in 1..Len(months) : months[i].month = 3 /\ Len(ColumnDeadlines(1, i, "2026")) = 1
    /\ \E i \in 1..Len(months) : Len(ColumnEntries(2, i)) > 0

\* a warning was logged for the date string ds of the year labelled `label`
WarnedAbout(ds, label) == \E w \in warnings : w.conferenceYear = label /\ (w.date = ds \/ w.endDate = ds)

\* a marker of row r shows an entry of the year `label` built on date string ds
MarkerFor(r, ds, label) == \E i \in 1..Len(months) : \E j \in 1..Len(ColumnEntries(r, i)) : ColumnEntries(r, i)[j].conferenceYear = label /\ (ColumnEntries(r, i)[j].date = ds \/ ColumnEntries(r, i)[j].endDate = ds)

\* C10: for every deadline date, conference start or conference end that is
\* a string which fails to parse, no marker is rendered for its entry and a
\* warning is logged for it.
C10_UnparseableDroppedWithWarning ==
    RowsRendered =>
        \A r \in 1..Len(filteredConferences) : \A k \in 1..Len(filteredConferences[r].information) :
            LET year == filteredConferences[r].information[k]
                strings == {year.info.deadlines[n].date : n \in 1..Len(year.info.deadlines)} \cup (IF year.info.conference_dates.present THEN {year.info.conference_dates.start, year.info.conference_dates.end} ELSE {})
            IN  \A ds \in strings : ds.k = "bad" => (~ MarkerFor(r, ds, year.label) /\ WarnedAbout(ds, year.label))

\* the part of C10 the code keeps: an unparseable deadline date or conference
\* start has no marker
C10_NoMarkerForBadStart == RowsRendered => \A r \in 1..Len(filteredConferences) : \A i \in 1..Len(months) : \A j \in 1..Len(ColumnEntries(r, i)) : ColumnEntries(r, i)[j].date.k # "bad"

\* no warning is ever logged
C10_NeverWarns == warnings = {}

\* a marker whose text holds NaN is rendered for an unparseable end date
C10_NoMarkerForBadEnd == RowsRendered => \A r \in 1..Len(filteredConferences) : \A i \in 1..Len(months) : \A j \in 1..Len(ColumnEntries(r, i)) : ColumnEntries(r, i)[j].endDate.k # "bad"

-----------------------------------------------------------------------------
(* createDeadlineMarker called on its own, on every shape of entry. *)

\* entries that differ in what createDeadlineMarker reads
MarkerEntries == {[type |-> ty, date |-> st, endDate |-> en, label |-> "Entry", is_predicted |-> FALSE, conferenceName |-> Str(ShortBa), conferenceYear |-> "2026"] : ty \in {"conference", "submission", "notification"}, st \in {IsoDate(2026, 6, 1), LocalDate(2026, 6, 1), BadDate}, en \in {MissingDate, EmptyDate, IsoDate(2026, 6, 5), LocalDate(2026, 6, 5), BadDate}}

InitMarker == InitIn({Nov2025}, BOOLEAN) /\ argument \in MarkerEntries /\ returned = NotReturned

\* createDeadlineMarker(argument): the text of the marker it returns
CallCreateDeadlineMarker ==
    /\ ~ returned.done
    /\ returned' = [done |-> TRUE, value |-> CreateDeadlineMarker(argument).text]
    /\ UNCHANGED << phase, now, tzWest, response, conferences, checkboxValues, checkboxChecked, currentFilters, filteredConferences, months, currentMonthIndex, conferencesList, warnings, fetches, listenersInstalled, monthsHeader, envLayout, renderVars, stickyVars, popupVars, argument >>

NextMarker == CallCreateDeadlineMarker

\* createDeadlineMarker on every entry, in both kinds of time zone
SpecMarker == InitMarker /\ [][NextMarker]_vars

\* the month and day a date string is written with, as "M/D"
WrittenMonthDay(ds) == NumChars(ds.m) \o <<"/">> \o NumChars(ds.d)

\* C11: the text of a marker is "M/D-M/D", the months and days of the start
\* and end dates, when the entry is of type conference and has both dates, and
\* "M/D", the month and day of its single date, in every other case, a
\* non-conference entry that carries an end date included (stated for the
\* entries whose dates can be parsed)
C11_MarkerText ==
    (returned.done /\ ~ Unparseable(argument.date)) =>
        IF argument.type = "conference" /\ Truthy(argument.endDate)
        THEN Unparseable(argument.endDate) \/ returned.value = WrittenMonthDay(argument.date) \o <<"-">> \o WrittenMonthDay(argument.endDate)
        ELSE returned.value = WrittenMonthDay(argument.date)

\* at or east of Greenwich the text is the one C11 states
C11_EastOfGreenwich == tzWest \/ C11_MarkerText

\* whether the text is a range follows the type and the end date alone
C11_RangeOnlyForConferenceWithEnd == returned.done => (("-" \in Range(returned.value)) <=> (argument.type = "conference" /\ Truthy(argument.endDate)))

-----------------------------------------------------------------------------
(* loadData under every answer of the server. *)

\* the variables a failing loadData leaves as they are
loadKeeps == << now, tzWest, response, filteredConferences, months, currentMonthIndex, warnings, listenersInstalled, monthsHeader, envLayout, renderVars, stickyVars, popupVars, argument, returned >>

\* the first fetch resolves with a status outside 200-299: the second fetch
PrimaryNotOk ==
    /\ phase = "constructed"
    /\ phase' = "fallback"
    /\ fetches' = Append(Answered(fetches, "not-ok", "unread"), Request(FallbackResource))
    /\ UNCHANGED << conferences, checkboxValues, checkboxChecked, currentFilters, conferencesList >>
    /\ UNCHANGED loadKeeps

\* the fetch in flight rejects (the request failed): await throws, loadData
\* rethrows, init shows the error
FetchRejects ==
    /\ phase \in {"constructed", "fallback"}
    /\ phase' = "error"
    /\ fetches' = Answered(fetches, "rejected", "unread")
    /\ conferencesList' = ErrorMessage
    /\ UNCHANGED << conferences, checkboxValues, checkboxChecked, currentFilters >>
    /\ UNCHANGED loadKeeps

\* response.json() rejects, or resolves with null so that data.conferences
\* throws; the status of the second response is not looked at
ResponseNotJson(ok) ==
    /\ phase \in {"constructed", "fallback"}
    /\ phase = "constructed" => ok
    /\ phase' = "error"
    /\ fetches' = Answered(fetches, IF ok THEN "ok" ELSE "not-ok", "not-json")
    /\ conferencesList' = ErrorMessage
    /\ UNCHANGED << conferences, checkboxValues, checkboxChecked, currentFilters >>
    /\ UNCHANGED loadKeeps

\* the body is JSON without conferences and themes, such as {}:
\* data.conferences || [] and data.themes || []
LoadDataWithoutFields(ok) ==
    /\ phase \in {"constructed", "fallback"}
    /\ phase = "constructed" => ok
    /\ phase' = "loaded"
    /\ fetches' = Answered(fetches, IF ok THEN "ok" ELSE "not-ok", "no-fields")
    /\ conferences' = << >>
    /\ currentFilters' = [currentFilters EXCEPT !.themes = InitialThemes(<< >>)]
    /\ checkboxValues' = << >>
    /\ checkboxChecked' = << >>
    /\ UNCHANGED conferencesList
    /\ UNCHANGED loadKeeps

\* the body's conferences is an object that is no array; its themes are a list
LoadDataConferencesNotArray(themes) ==
    /\ phase \in {"constructed", "fallback"}
    /\ phase' = "loaded"
    /\ fetches' = Answered(fetches, "ok", "conferences-not-array")
    /\ conferences' = << >>
    /\ currentFilters' = [currentFilters EXCEPT !.themes = InitialThemes(themes)]
    /\ checkboxValues' = themes
    /\ checkboxChecked' = [i \in 1..Len(themes) |-> TRUE]
    /\ UNCHANGED conferencesList
    /\ UNCHANGED loadKeeps

\* the body's themes is an object that is no array: new Set(themes) throws in
\* populateThemeFilter, after this.conferences was assigned
LoadDataThemesNotArray(confs) ==
    /\ phase \in {"constructed", "fallback"}
    /\ phase' = "error"
    /\ fetches' = Answered(fetches, "ok", "themes-not-array")
    /\ conferences' = confs
    /\ conferencesList' = ErrorMessage
    /\ UNCHANGED << checkboxValues, checkboxChecked, currentFilters >>
    /\ UNCHANGED loadKeeps

\* the datasets of the load specification
LoadThemes == {<< >>, <<ThemeA>>, <<ThemeA, ThemeB>>}

LoadConferences == {<< >>, <<OtherConference>>}

LoadDatasets == [conferences : LoadConferences, themes : LoadThemes]

InitLoad == InitIn({Nov2025}, {FALSE}) /\ NoCall

NextLoad ==
    \/ PrimaryNotOk
    \/ FetchRejects
    \/ \E ok \in BOOLEAN : ResponseNotJson(ok)
    \/ \E ok \in BOOLEAN : LoadDataWithoutFields(ok)
    \/ \E themes \in LoadThemes : LoadDataConferencesNotArray(themes)
    \/ \E confs \in LoadConferences : LoadDataThemesNotArray(confs)
    \/ \E data \in LoadDatasets : LoadData(data)
    \/ InitRest
    \/ SelectAllThemes
    \/ DeselectAllThemes
    \/ \E i \in 1..Len(checkboxValues) : ThemeCheckboxChange(i)
    \/ \E value \in {<< >>, <<"a">>, <<"B">>} : SearchInput(value)

\* initialization under every answer to the two fetches, and the controls after it
SpecLoad == InitLoad /\ [][NextLoad]_vars

\* loadData has returned or thrown
LoadOver == phase \notin {"constructed", "fallback"}

\* the fetch calls that asked for resource r
FetchesOf(r) == {i \in 1..Len(fetches) : fetches[i].resource = r}

\* C12: the secondary resource is fetched exactly once when the primary fetch
\* fails (a status that is not OK, or a request that failed) and never
\* otherwise, in particular not when the primary answers 200 with a body that
\* cannot be parsed; no load performs more than two fetches
C12_FallbackExactlyOnPrimaryFailure ==
    /\ Len(fetches) <= 2
    /\ fetches[1].resource = PrimaryResource
    /\ LoadOver => Cardinality(FetchesOf(FallbackResource)) = (IF fetches[1].outcome \in {"not-ok", "rejected"} THEN 1 ELSE 0)

\* what the code does: the secondary resource is fetched exactly once when the
\* primary answers with a status that is not OK, and never otherwise
C12_FallbackExactlyOnNotOk ==
    /\ Len(fetches) <= 2
    /\ fetches[1].resource = PrimaryResource
    /\ fetches[1].outcome # "pending" => Cardinality(FetchesOf(FallbackResource)) = (IF fetches[1].outcome = "not-ok" THEN 1 ELSE 0)

\* a primary that answers 200 with an unparseable body: no second fetch
C12_NoRetryAfterUnparseableBody == (fetches[1].outcome = "ok" /\ fetches[1].body = "not-json") => (phase = "error" /\ Len(fetches) = 1)

\* init has returned
InitOver == phase \in {"ready", "error"}

\* the load failed: the fetch loadData ended with did not answer OK, or its
\* body is not JSON of the expected shape
LoadFailed == LastFetch.outcome # "ok" \/ LastFetch.body # "expected"

\* the error message and nothing else: no rows, no month headers, no theme
\* checkboxes, no listeners
ErrorState == phase = "error" /\ conferencesList = ErrorMessage /\ monthsHeader = << >> /\ checkboxValues = << >> /\ ~ listenersInstalled

\* C13: when both fetches fail, or the response is not JSON of the expected
\* shape, init ends in the error state, the error message in the list area and
\* nothing else rendered or installed; a failed load never ends in a normally
\* rendered calendar
C13_FailedLoadEndsInErrorState == (InitOver /\ LoadFailed) => ErrorState

\* the failures loadData itself throws on end in the error state: a rejected
\* fetch, a body that is not JSON, themes that are no array
C13_ThrowingLoadEndsInErrorState == (InitOver /\ (LastFetch.outcome = "rejected" \/ LastFetch.body \in {"not-json", "themes-not-array"})) => ErrorState

\* a body whose conferences is no array ends with the error message, but with
\* the listeners installed and the theme checkboxes rendered
C13_PartialRendering == (InitOver /\ LastFetch.body = "conferences-not-array") => (phase = "error" /\ conferencesList = ErrorMessage /\ listenersInstalled /\ monthsHeader = << >>)

\* a body without the two fields is rendered as an empty dataset
C13_EmptyBodyRendersNormally == (InitOver /\ LastFetch.body = "no-fields") => (phase = "ready" /\ conferencesList.kind = "no-data" /\ listenersInstalled /\ Len(monthsHeader) = 24)

-----------------------------------------------------------------------------
(* stripThemePrefix called on its own. *)

\* longest theme string drawn
MaxThemeLen == 4

\* \d of the regular expression
DigitChars == {"0", "1", "2", "3", "4", "5", "6", "7", "8", "9"}

\* \s of the regular expression and of trim(), as far as the model's strings go
SpaceChars == {" "}

\* how many characters at the start of s are in S
LeadingCount(s, S) ==
    LET others == {i \in 1..Len(s) : s[i] \notin S}
    IN  IF others = {} THEN Len(s) ELSE (CHOOSE i \in others : \A j \in others : i <= j) - 1

\* how many characters at the end of s are in S
TrailingCount(s, S) ==
    LET others == {i \in 1..Len(s) : s[i] \notin S}
    IN  IF others = {} THEN Len(s) ELSE Len(s) - (CHOOSE i \in others : \A j \in others : i >= j)

\* theme.replace(/^\d+[\.\s]+/, ''): both runs are greedy and share no character
ReplacePrefix(theme) ==
    LET digits == LeadingCount(theme, DigitChars)
        rest == SubSeq(theme, digits + 1, Len(theme))
        dots == LeadingCount(rest, {"."} \cup SpaceChars)
    IN  IF digits >= 1 /\ dots >= 1 THEN SubSeq(rest, dots + 1, Len(rest)) ELSE theme

\* String.prototype.trim
Trim(s) == IF LeadingCount(s, SpaceChars) = Len(s) THEN << >> ELSE SubSeq(s, LeadingCount(s, SpaceChars) + 1, Len(s) - TrailingCount(s, SpaceChars))

\* stripThemePrefix without its trim()
StripThemePrefix_NoTrim(theme) == IF theme = << >> THEN theme ELSE ReplacePrefix(theme)

\* if (!theme) return theme; return theme.replace(/^\d+[\.\s]+/, '').trim()
StripThemePrefix(theme) == IF theme = << >> THEN theme ELSE Trim(ReplacePrefix(theme))

\* "01. Systems"
NumberedSystems == <<"0", "1", ".", " ", "S", "y", "s", "t", "e", "m", "s">>

\* theme strings: every string over a digit, the dot, the space and a letter,
\* and the example of the specification
ThemeStrings == SeqsUpTo({"1", ".", " ", "S"}, MaxThemeLen) \cup {NumberedSystems}

InitStrip == InitIn({Nov2025}, {FALSE}) /\ argument \in ThemeStrings /\ returned = NotReturned

\* stripThemePrefix(argument)
CallStripThemePrefix ==
    /\ ~ returned.done
    /\ returned' = [done |-> TRUE, value |-> StripThemePrefix(argument)]
    /\ UNCHANGED << phase, now, tzWest, response, conferences, checkboxValues, checkboxChecked, currentFilters, filteredConferences, months, currentMonthIndex, conferencesList, warnings, fetches, listenersInstalled, monthsHeader, envLayout, renderVars, stickyVars, popupVars, argument >>

NextStrip == CallStripThemePrefix

\* stripThemePrefix on every theme string
SpecStrip == InitStrip /\ [][NextStrip]_vars

\* s starts with d digits followed by k dots or spaces, and no more of them
NumericPrefix(s, d, k) ==
    /\ d >= 1 /\ k >= 1 /\ d + k <= Len(s)
    /\ \A i \in 1..d : s[i] \in DigitChars
    /\ \A i \in (d + 1)..(d + k) : s[i] \in {".", " "}
    /\ d + k < Len(s) => s[d + k + 1] \notin {".", " "}

HasNumericPrefix(s) == \E d \in 1..Len(s), k \in 1..Len(s) : NumericPrefix(s, d, k)

\* t is s without the spaces around it
WithoutSpacesAround(s, t) ==
    /\ t = << >> \/ (t[1] # " " /\ t[Len(t)] # " ")
    /\ \E a \in 0..Len(s), b \in 0..Len(s) :
        /\ a + Len(t) + b = Len(s)
        /\ \A i \in 1..Len(s) : IF i <= a \/ i > a + Len(t) THEN s[i] = " " ELSE s[i] = t[i - a]

\* C15 as stated: "01. Systems" gives "Systems", and a string that does not
\* start with a numeric prefix is returned unchanged
C15_PrefixRemovedElseUnchanged ==
    returned.done =>
        /\ argument = NumberedSystems => returned.value = <<"S", "y", "s", "t", "e", "m", "s">>
        /\ ~ HasNumericPrefix(argument) => returned.value = argument

\* C15, amended: "01. Systems" gives "Systems"; a leading numeric prefix
\* (digits, then dots and spaces) is removed, and what is left, or the whole
\* string when there is no such prefix, is returned without the spaces
\* around it: unchanged exactly when there are none
C15_PrefixRemovedAndTrimmed ==
    returned.done =>
        /\ argument = NumberedSystems => returned.value = <<"S", "y", "s", "t", "e", "m", "s">>
        /\ ~ HasNumericPrefix(argument) => WithoutSpacesAround(argument, returned.value)
        /\ \A d \in 1..Len(argument), k \in 1..Len(argument) : NumericPrefix(argument, d, k) => WithoutSpacesAround(SubSeq(argument, d + k + 1, Len(argument)), returned.value)

\* a string without numeric prefix and with a space at its end has been stripped
C15_Witness == returned.done /\ argument = <<"S", " ">> /\ returned.value = <<"S">>

\* the example of the specification has been stripped
C15_WitnessExample == returned.done /\ argument = NumberedSystems

-----------------------------------------------------------------------------
(* The timers of renderCalendar, scrolling, and the sticky header. *)

\* a clone of the months header, attached to the body and shifted by x pixels
Element(x) == [t |-> "element", translateX |-> x]

\* Math.max(0, calendarWrapper.scrollLeft)
Max0(x) == IF x > 0 THEN x ELSE 0

\* what the timers and the scroll handlers leave as it is
scrollKeeps == << phase, now, tzWest, response, conferences, checkboxValues, checkboxChecked, currentFilters, filteredConferences, months, currentMonthIndex, conferencesList, warnings, fetches, listenersInstalled, monthsHeader, monthHeaderWidth, popupVars, argument, returned >>

\* syncHeaderAndBodyWidth: monthColumns is every .month-column of the document,
\* and column number index is given the width of header number index, if
\* there is such a header
SyncHeaderAndBodyWidth == IF Len(monthsHeader) > 0 THEN [k \in 1..Len(columnWidths) |-> IF k <= Len(monthsHeader) THEN Px(monthHeaderWidth) ELSE columnWidths[k]] ELSE columnWidths

\* the timer renderCalendar set with delay 0 runs
SyncTimerFires ==
    /\ syncPending
    /\ syncPending' = FALSE
    /\ columnWidths' = SyncHeaderAndBodyWidth
    /\ UNCHANGED << scrollKeeps, wrapperTop, scrollPending, stickyVars >>

\* handleWrapperScroll, the calendar being scrolled to x
HandleWrapperScroll(x) == monthsWrapper' = IF isFixed /\ monthsWrapper.t = "element" THEN Element(Max0(x)) ELSE monthsWrapper

\* the timer scrollToCurrentMonth set with delay 100 runs, after the timer of
\* delay 0 set with it; the scroll event of .calendar-wrapper follows
ScrollTimerFires ==
    /\ scrollPending
    /\ ~ syncPending
    /\ scrollPending' = FALSE
    /\ scrollLeft' = currentMonthIndex.n * MonthWidth
    /\ HandleWrapperScroll(currentMonthIndex.n * MonthWidth)
    /\ UNCHANGED << scrollKeeps, wrapperTop, columnWidths, syncPending, scrollY, headerTop, isFixed, monthsHeaderVisibility, columnHeaderPosition >>

\* the user scrolls the calendar horizontally to x
UserScrollsCalendar(x) ==
    /\ scrollLeft' = x
    /\ IF listenersInstalled THEN HandleWrapperScroll(x) ELSE UNCHANGED monthsWrapper
    /\ UNCHANGED << scrollKeeps, wrapperTop, renderVars, scrollY, headerTop, isFixed, monthsHeaderVisibility, columnHeaderPosition >>

\* handleScroll with the window scrolled to y and the calendar at layoutTop in
\* the document; hTop, fixed and wrapper are headerTop, isFixed and
\* monthsWrapper as they are when it is called
HandleScroll(y, layoutTop, hTop, fixed, wrapper) ==
    LET top == IF hTop.t = "null" THEN layoutTop ELSE hTop.n
    IN  /\ headerTop' = [t |-> "number", n |-> top]
        /\ IF y >= top
           THEN /\ isFixed' = TRUE
                /\ monthsWrapper' = IF ~ fixed \/ wrapper.t = "element" THEN Element(Max0(scrollLeft)) ELSE wrapper
                /\ IF ~ fixed
                   THEN monthsHeaderVisibility' = "hidden" /\ columnHeaderPosition' = "fixed"
                   ELSE UNCHANGED << monthsHeaderVisibility, columnHeaderPosition >>
           ELSE IF fixed
                THEN /\ isFixed' = FALSE
                     /\ monthsWrapper' = NoElement
                     /\ monthsHeaderVisibility' = ""
                     /\ columnHeaderPosition' = ""
                ELSE /\ isFixed' = FALSE
                     /\ monthsWrapper' = wrapper
                     /\ UNCHANGED << monthsHeaderVisibility, columnHeaderPosition >>

\* the window is scrolled vertically to y: its scroll event, if listened to
WindowScroll(y) ==
    /\ scrollY' = y
    /\ IF listenersInstalled
       THEN HandleScroll(y, wrapperTop, headerTop, isFixed, monthsWrapper)
       ELSE UNCHANGED << headerTop, isFixed, monthsWrapper, monthsHeaderVisibility, columnHeaderPosition >>
    /\ UNCHANGED << scrollKeeps, wrapperTop, renderVars, scrollLeft >>

\* the window is resized and the calendar comes to lie at top in the document:
\* the resize listener forgets headerTop, removes the clone, clears isFixed and
\* calls handleScroll
WindowResize(top) ==
    /\ wrapperTop' = top
    /\ IF listenersInstalled
       THEN HandleScroll(scrollY, top, Null, FALSE, NoElement)
       ELSE UNCHANGED << headerTop, isFixed, monthsWrapper, monthsHeaderVisibility, columnHeaderPosition >>
    /\ UNCHANGED << scrollKeeps, renderVars, scrollLeft, scrollY >>

\* positions the user scrolls the calendar to
CalendarOffsets == {0, MonthWidth}

\* datasets of one and of two conferences
LayoutDatasets == [conferences : {<<OtherConference>>, <<OtherConference, OtherConference>>}, themes : {<<ThemeA>>}]

InitLayout == InitOn({Nov2025}, {FALSE}, {MonthWidth, MonthWidth + 30}, {300}) /\ NoCall

NextLayout ==
    \/ \E data \in LayoutDatasets : LoadData(data)
    \/ InitRest
    \/ SelectAllThemes
    \/ DeselectAllThemes
    \/ \E i \in 1..Len(checkboxValues) : ThemeCheckboxChange(i)
    \/ \E value \in {<< >>, <<"a">>, <<"B">>} : SearchInput(value)
    \/ SyncTimerFires
    \/ ScrollTimerFires
    \/ \E x \in CalendarOffsets : UserScrollsCalendar(x)

\* the page with its timers, under filter changes and horizontal scrolling
SpecLayout == InitLayout /\ [][NextLayout]_vars

\* the width of month column i of row r: its style.width, or the min-width of
\* the style sheet
ColumnWidth(r, i) == LET column == columnWidths[(r - 1) * Len(months) + i] IN IF column.set THEN column.px ELSE MonthWidth

\* a render and its deferred width synchronization have completed
RenderCompleted == phase = "ready" /\ ~ syncPending

\* C16: after every re-render and its deferred width synchronization, month
\* column i of every rendered row is as wide as month header i, in all rows
\* and after any sequence of filter changes
C16_ColumnsAsWideAsHeaders == (RenderCompleted /\ conferencesList.kind = "rows") => \A r \in 1..Len(conferencesList.rows), i \in 1..Len(monthsHeader) : ColumnWidth(r, i) = monthHeaderWidth

\* the columns of the first row are as wide as the headers
C16_FirstRowAsWideAsHeaders == (RenderCompleted /\ conferencesList.kind = "rows") => \A i \in 1..Len(monthsHeader) : ColumnWidth(1, i) = monthHeaderWidth

\* the columns of the other rows keep the width of the style sheet
C16_OtherRowsNeverSet == (phase = "ready" /\ conferencesList.kind = "rows") => \A r \in 2..Len(conferencesList.rows), i \in 1..Len(monthsHeader) : ~ columnWidths[(r - 1) * Len(months) + i].set

\* C17: the horizontal scroll position is set to the current month on the
\* initial load only: once the timer of the first render has run, no theme or
\* search change starts another that will assign scrollLeft
C17_ScrollSetOnInitialLoadOnly == [][(phase = "ready" /\ ~ scrollPending) => ~ scrollPending']_vars

\* the only assignments to scrollLeft are the user's and those of the timers
C17_ScrollLeftSetByTimerOrUser == [][scrollLeft' # scrollLeft => ((scrollPending /\ ~ scrollPending') \/ scrollLeft' \in CalendarOffsets)]_vars

\* positions of the calendar in the document, before and after a resize
WrapperTops == {100, 300}

\* positions the user scrolls the window to
WindowOffsets == {0, 200, 400}

InitSticky == InitOn({Nov2025}, {FALSE}, {MonthWidth}, WrapperTops) /\ NoCall

NextSticky ==
    \/ \E data \in LayoutDatasets : LoadData(data)
    \/ InitRest
    \/ SyncTimerFires
    \/ ScrollTimerFires
    \/ \E x \in CalendarOffsets : UserScrollsCalendar(x)
    \/ \E y \in WindowOffsets : WindowScroll(y)
    \/ \E top \in WrapperTops : WindowResize(top)

\* the page under vertical and horizontal scrolling and resizing
SpecSticky == InitSticky /\ [][NextSticky]_vars

\* the original months header is shown, the column header is not fixed, and
\* no clone is attached
HeaderAtRest == monthsHeaderVisibility = "" /\ columnHeaderPosition = "" /\ monthsWrapper = NoElement

\* C18: whenever the header is not pinned, the original months header is
\* visible, the column header has no fixed positioning and no clone is
\* attached; whenever it is pinned, the clone exists; so a resize while pinned
\* that ends with the window above the header does not leave the original
\* months header hidden
C18_StickyHeaderConsistent == (~ isFixed => HeaderAtRest) /\ (isFixed => monthsWrapper.t = "element")

\* whenever the header is pinned the clone exists and the original is hidden;
\* whenever it is not pinned no clone is attached
C18_CloneExactlyWhenPinned == (isFixed <=> monthsWrapper.t = "element") /\ (isFixed => (monthsHeaderVisibility = "hidden" /\ columnHeaderPosition = "fixed"))

\* scrolling alone keeps the header consistent
C18_ScrollKeepsConsistent == [][(C18_StickyHeaderConsistent /\ wrapperTop' = wrapperTop /\ headerTop' = headerTop) => C18_StickyHeaderConsistent']_vars

\* the clone follows the horizontal scroll position after every handler
C18_CloneFollowsScroll == isFixed => monthsWrapper.translateX = scrollLeft

-----------------------------------------------------------------------------
(* The markers' mouse listeners and the detail popup. *)

\* the markers of the rendered rows: <<row, month column, place in the column>>
Markers == UNION {{<<r, i, j>> : j \in 1..Len(conferencesList.rows[r].columns[i])} : r \in 1..Len(conferencesList.rows), i \in 1..Len(months)}

Over(m) == [over |-> "marker", marker |-> m]

OverPopup == [over |-> "popup", marker |-> << >>]

\* the popup showDeadlineDetails attaches for marker m
PopupOf(m) == [t |-> "popup", marker |-> m]

\* what the mouse listeners and their timers leave as it is
popupKeeps == << phase, now, tzWest, response, conferences, checkboxValues, checkboxChecked, currentFilters, filteredConferences, months, currentMonthIndex, conferencesList, warnings, fetches, listenersInstalled, monthsHeader, envLayout, renderVars, stickyVars, argument, returned >>

\* the pointer moves from what it is over to `to`: the mouseleave listener of
\* the element left, then the mouseenter listener of the element entered.
\* Leaving a marker starts its timer; leaving the popup removes it; entering a
\* marker is showDeadlineDetails, which removes the popup there is, attaches a
\* new one and starts the timer that will add its closePopup listener
MovePointer(to) ==
    /\ to # pointer
    /\ to.over = "marker" => to.marker \in Markers
    /\ to.over = "popup" => (popup.t = "popup" /\ pointer.over # "popup")
    /\ pointer' = to
    /\ leaveTimers' = IF pointer.over = "marker" THEN leaveTimers \cup {pointer.marker} ELSE leaveTimers
    /\ popup' = IF to.over = "marker" THEN PopupOf(to.marker) ELSE IF pointer.over = "popup" THEN NoPopup ELSE popup
    /\ installPending' = IF to.over = "marker" THEN TRUE ELSE IF pointer.over = "popup" THEN FALSE ELSE installPending
    /\ closeListener' = IF to.over = "marker" \/ pointer.over = "popup" THEN FALSE ELSE closeListener
    /\ UNCHANGED popupKeeps

\* the timer a mouseleave of marker m started runs: it removes whatever popup
\* is attached, unless the pointer is over that popup or over m
LeaveTimerFires(m) ==
    /\ m \in leaveTimers
    /\ leaveTimers' = leaveTimers \ {m}
    /\ IF popup.t = "popup" /\ pointer.over # "popup" /\ pointer # Over(m)
       THEN popup' = NoPopup /\ installPending' = FALSE /\ closeListener' = FALSE
       ELSE UNCHANGED << popup, installPending, closeListener >>
    /\ UNCHANGED << popupKeeps, pointer >>

\* the timer showDeadlineDetails started for the popup shown runs
InstallTimerFires ==
    /\ installPending
    /\ installPending' = FALSE
    /\ closeListener' = TRUE
    /\ UNCHANGED << popupKeeps, pointer, popup, leaveTimers >>

\* a click where the pointer is.  On a marker: stopPropagation and
\* showDeadlineDetails.  Anywhere else, the popup included, the click reaches
\* the document: closePopup removes its popup and itself; the pointer is then
\* over what lay under the popup
ClickAtPointer ==
    /\ phase = "ready"
    /\ IF pointer.over = "marker"
       THEN /\ popup' = PopupOf(pointer.marker)
            /\ installPending' = TRUE
            /\ closeListener' = FALSE
            /\ UNCHANGED pointer
       ELSE IF closeListener
            THEN /\ popup' = NoPopup
                 /\ closeListener' = FALSE
                 /\ pointer' = Elsewhere
                 /\ UNCHANGED installPending
            ELSE UNCHANGED << popup, installPending, closeListener, pointer >>
    /\ UNCHANGED << popupKeeps, leaveTimers >>

PopupDatasets == [conferences : {<<OtherConference>>}, themes : {<<ThemeA>>}]

InitPopup == InitOn({Nov2025}, BOOLEAN, {MonthWidth}, {300}) /\ NoCall

NextPopup ==
    \/ \E data \in PopupDatasets : LoadData(data)
    \/ InitRest
    \/ SyncTimerFires
    \/ ScrollTimerFires
    \/ \E m \in Markers : MovePointer(Over(m))
    \/ MovePointer(OverPopup)
    \/ MovePointer(Elsewhere)
    \/ \E m \in leaveTimers : LeaveTimerFires(m)
    \/ InstallTimerFires
    \/ ClickAtPointer

\* the rendered calendar under every movement of the pointer, click and timer
SpecPopup == InitPopup /\ [][NextPopup]_vars

\* the pointer is over the marker whose popup is shown, or over the popup
PointerOnMarkerOrPopup == popup.t = "popup" /\ (pointer.over = "popup" \/ pointer = Over(popup.marker))

\* C14: while the pointer stays over the marker whose popup is shown, or over
\* the popup, no handler and no timer removes the popup, the delayed
\* mouseleave check of a marker left earlier included; the popup is dismissed
\* only by a click outside or by the pointer leaving both
C14_PopupKeptWhilePointed == [][(PointerOnMarkerOrPopup /\ pointer' = pointer) => popup' = popup]_vars

\* the timer of the marker whose popup is shown keeps the popup while the
\* pointer is over that marker or over the popup
C14_OwnTimerKeepsPopup == [][(PointerOnMarkerOrPopup /\ pointer' = pointer /\ leaveTimers' = leaveTimers \ {popup.marker}) => popup' = popup]_vars

\* one popup at most, and it belongs to a rendered marker
C14_PopupOfRenderedMarker == popup.t = "popup" => popup.marker \in Markers

=============================================================================
